---- MODULE Spec2Model ----
(***************************************************************************)
(* A model of the bereal-api client library: the token codec and the       *)
(* request signature of src/src/utils.ts, the default header set of        *)
(* src/src/constants.ts, the BeReal session client of src/src/mobile-l7.ts *)
(* and the two sign-in clients of auth-l7.ts (src/unnamed/part_001).       *)
(*                                                                         *)
(* Strings are sequences of character codes (ASCII), so that base64,       *)
(* decimal formatting and JSON are computed, not assumed.                  *)
(***************************************************************************)
EXTENDS Naturals, Sequences, FiniteSets, TLC

(***************************************************************************)
(* Bounds of the model.                                                    *)
(***************************************************************************)
\* The clock runs over the seconds 0..MaxSec.
MaxSec == 2

(***************************************************************************)
(* Text helpers.                                                           *)
(***************************************************************************)
\* String(n) / template-literal formatting of a non-negative integer.
RECURSIVE NumberToString(_)
NumberToString(n) ==
  IF n < 10 THEN <<48 + n>>
  ELSE NumberToString(n \div 10) \o <<48 + (n % 10)>>

IsDigit(c) == c >= 48 /\ c <= 57

\* String.prototype.split("."): the segments between the dots.
Split(s) ==
  LET dots == {i \in 1..Len(s) : s[i] = 46}
      \* The position of the k-th dot; 0 before the first, Len(s) + 1 after the last.
      Dot(k) == IF k = 0 THEN 0
                ELSE IF k > Cardinality(dots) THEN Len(s) + 1
                ELSE CHOOSE i \in dots : Cardinality({j \in dots : j < i}) = k - 1
  IN  [k \in 1..(Cardinality(dots) + 1) |-> SubSeq(s, Dot(k - 1) + 1, Dot(k) - 1)]

(***************************************************************************)
(* @std/encoding base64.                                                   *)
(***************************************************************************)
\* "A".."Z", "a".."z", "0".."9", "+", "/"
Base64Alphabet ==
  <<65, 66, 67, 68, 69, 70, 71, 72, 73, 74, 75, 76, 77, 78, 79, 80, 81, 82,
    83, 84, 85, 86, 87, 88, 89, 90, 97, 98, 99, 100, 101, 102, 103, 104, 105,
    106, 107, 108, 109, 110, 111, 112, 113, 114, 115, 116, 117, 118, 119, 120,
    121, 122, 48, 49, 50, 51, 52, 53, 54, 55, 56, 57, 43, 47>>

\* The base64url alphabet of a JWT: "-" and "_" in place of "+" and "/".
Base64UrlAlphabet ==
  [i \in 1..64 |-> IF i = 63 THEN 45 ELSE IF i = 64 THEN 95 ELSE Base64Alphabet[i]]

\* The characters of the 1..3 bytes of one group, without padding.
EncodeGroup(g, abc) ==
  LET b1 == g[1]
      b2 == IF Len(g) >= 2 THEN g[2] ELSE 0
      b3 == IF Len(g) >= 3 THEN g[3] ELSE 0
      c1 == abc[(b1 \div 4) + 1]
      c2 == abc[((b1 % 4) * 16 + (b2 \div 16)) + 1]
      c3 == abc[((b2 % 16) * 4 + (b3 \div 64)) + 1]
      c4 == abc[(b3 % 64) + 1]
  IN  IF Len(g) = 1 THEN <<c1, c2>>
      ELSE IF Len(g) = 2 THEN <<c1, c2, c3>>
      ELSE <<c1, c2, c3, c4>>

RECURSIVE EncodeGroups(_, _, _)
EncodeGroups(bytes, abc, padded) ==
  IF bytes = <<>> THEN <<>>
  ELSE IF Len(bytes) <= 3
       THEN EncodeGroup(bytes, abc)
              \o (IF padded THEN [i \in 1..(3 - Len(bytes)) |-> 61] ELSE <<>>)
       ELSE EncodeGroup(SubSeq(bytes, 1, 3), abc)
              \o EncodeGroups(SubSeq(bytes, 4, Len(bytes)), abc, padded)

\* encodeBase64(data): standard alphabet, "=" padding. A string argument is
\* UTF-8 encoded first; the model's strings are ASCII, one byte per character.
encodeBase64(data) == EncodeGroups(data, Base64Alphabet, TRUE)

\* The segment encoding of a JWT (RFC 7515): base64url, no padding.
encodeBase64Url(data) == EncodeGroups(data, Base64UrlAlphabet, FALSE)

\* The standard alphabet: "A".."Z", "a".."z", "0".."9", "+", "/".
InAlphabet(c) ==
  (c >= 65 /\ c <= 90) \/ (c >= 97 /\ c <= 122) \/ (c >= 48 /\ c <= 57) \/ c = 43 \/ c = 47

\* The six bits of a character of the standard alphabet: its index in it.
Sextet(c) ==
  IF c >= 65 /\ c <= 90 THEN c - 65
  ELSE IF c >= 97 /\ c <= 122 THEN c - 71
  ELSE IF c >= 48 /\ c <= 57 THEN c + 4
  ELSE IF c = 43 THEN 62
  ELSE 63

\* The bytes of one group of 2..4 characters; the bits left over are dropped.
DecodeGroup(g) ==
  LET s1 == Sextet(g[1])
      s2 == Sextet(g[2])
      s3 == IF Len(g) >= 3 THEN Sextet(g[3]) ELSE 0
      s4 == IF Len(g) >= 4 THEN Sextet(g[4]) ELSE 0
      b1 == s1 * 4 + (s2 \div 16)
      b2 == (s2 % 16) * 16 + (s3 \div 4)
      b3 == (s3 % 4) * 64 + s4
  IN  IF Len(g) = 2 THEN <<b1>>
      ELSE IF Len(g) = 3 THEN <<b1, b2>>
      ELSE <<b1, b2, b3>>

RECURSIVE DecodeGroups(_)
DecodeGroups(chars) ==
  IF chars = <<>> THEN <<>>
  ELSE IF Len(chars) <= 4 THEN DecodeGroup(chars)
  ELSE DecodeGroup(SubSeq(chars, 1, 4)) \o DecodeGroups(SubSeq(chars, 5, Len(chars)))

\* Up to two "=" at the end of a string whose length is a multiple of 4.
StripPadding(b64) ==
  LET n == Len(b64)
  IN  IF n > 0 /\ n % 4 = 0 /\ b64[n] = 61
      THEN IF b64[n - 1] = 61 THEN SubSeq(b64, 1, n - 2) ELSE SubSeq(b64, 1, n - 1)
      ELSE b64

\* decodeBase64(b64): the standard alphabet only. It throws on a character
\* outside the alphabet and on a length that leaves one character over, and
\* it accepts a string without padding.
decodeBase64(b64) ==
  LET body == StripPadding(b64)
  IN  IF (\E i \in 1..Len(body) : ~InAlphabet(body[i])) \/ Len(body) % 4 = 1
      THEN [ok |-> FALSE, bytes |-> <<>>]
      ELSE [ok |-> TRUE, bytes |-> DecodeGroups(body)]

\* new TextDecoder().decode(bytes): ASCII bytes are their own code points; any
\* other byte decodes to U+FFFD (the model's texts are ASCII).
TextDecode(bytes) == [i \in 1..Len(bytes) |-> IF bytes[i] < 128 THEN bytes[i] ELSE 65533]

(***************************************************************************)
(* JSON: objects whose members are strings, non-negative integers or null, *)
(* written without white space (what JSON.stringify writes).               *)
(***************************************************************************)
Str(s) == [t |-> "string", v |-> s]
Num(n) == [t |-> "number", v |-> n]
Null == [t |-> "null", v |-> 0]
Member(k, v) == [k |-> k, v |-> v]

JsonValueText(v) ==
  IF v.t = "string" THEN <<34>> \o v.v \o <<34>>
  ELSE IF v.t = "number" THEN NumberToString(v.v)
  ELSE <<110, 117, 108, 108>>

RECURSIVE JsonMembersText(_)
JsonMembersText(object) ==
  IF object = <<>> THEN <<>>
  ELSE <<34>> \o object[1].k \o <<34, 58>> \o JsonValueText(object[1].v)
         \o (IF Len(object) > 1 THEN <<44>> \o JsonMembersText(Tail(object)) ELSE <<>>)

\* JSON.stringify of an object.
JsonStringify(object) == <<123>> \o JsonMembersText(object) \o <<125>>

\* The index of the first '"' at or after i, 0 when there is none or when an
\* escape or a control character comes first.
RECURSIVE StringEnd(_, _)
StringEnd(text, i) ==
  IF i > Len(text) THEN 0
  ELSE IF text[i] = 34 THEN i
  ELSE IF text[i] = 92 \/ text[i] < 32 THEN 0
  ELSE StringEnd(text, i + 1)

\* The index after the digits that start at i.
RECURSIVE DigitsEnd(_, _)
DigitsEnd(text, i) ==
  IF i <= Len(text) /\ IsDigit(text[i]) THEN DigitsEnd(text, i + 1) ELSE i

RECURSIVE DigitsValue(_)
DigitsValue(ds) ==
  IF ds = <<>> THEN 0
  ELSE DigitsValue(SubSeq(ds, 1, Len(ds) - 1)) * 10 + (ds[Len(ds)] - 48)

JsonFail == [ok |-> FALSE, v |-> Null, next |-> 0]

\* One value starting at i: [ok, v, next].
JsonValueAt(text, i) ==
  IF i > Len(text) THEN JsonFail
  ELSE IF text[i] = 34
       THEN LET e == StringEnd(text, i + 1)
            IN  IF e = 0 THEN JsonFail
                ELSE [ok |-> TRUE, v |-> Str(SubSeq(text, i + 1, e - 1)), next |-> e + 1]
  ELSE IF IsDigit(text[i])
       THEN LET e == DigitsEnd(text, i)
            IN  IF text[i] = 48 /\ e > i + 1 THEN JsonFail
                ELSE [ok |-> TRUE, v |-> Num(DigitsValue(SubSeq(text, i, e - 1))), next |-> e]
  ELSE IF i + 3 <= Len(text) /\ SubSeq(text, i, i + 3) = <<110, 117, 108, 108>>
       THEN [ok |-> TRUE, v |-> Null, next |-> i + 4]
  ELSE JsonFail

\* A later member of the same name replaces the earlier one.
PutMember(object, k, v) ==
  IF \E j \in 1..Len(object) : object[j].k = k
  THEN [j \in 1..Len(object) |-> IF object[j].k = k THEN Member(k, v) ELSE object[j]]
  ELSE Append(object, Member(k, v))

\* The members from i on, up to the closing brace, which must end the text.
RECURSIVE JsonMembersAt(_, _, _)
JsonMembersAt(text, i, acc) ==
  IF i > Len(text) \/ text[i] # 34 THEN [ok |-> FALSE, obj |-> <<>>]
  ELSE LET e == StringEnd(text, i + 1)
       IN  IF e = 0 \/ e + 1 > Len(text) \/ text[e + 1] # 58
           THEN [ok |-> FALSE, obj |-> <<>>]
           ELSE LET val == JsonValueAt(text, e + 2)
                    got == PutMember(acc, SubSeq(text, i + 1, e - 1), val.v)
                IN  IF ~val.ok \/ val.next > Len(text) THEN [ok |-> FALSE, obj |-> <<>>]
                    ELSE IF text[val.next] = 125
                         THEN [ok |-> val.next = Len(text), obj |-> got]
                    ELSE IF text[val.next] = 44
                         THEN JsonMembersAt(text, val.next + 1, got)
                    ELSE [ok |-> FALSE, obj |-> <<>>]

\* JSON.parse(text) of an object: [ok, object]; ok = FALSE is a SyntaxError.
JsonParse(text) ==
  IF Len(text) < 2 \/ text[1] # 123 THEN [ok |-> FALSE, obj |-> <<>>]
  ELSE IF text = <<123, 125>> THEN [ok |-> TRUE, obj |-> <<>>]
  ELSE LET r == JsonMembersAt(text, 2, <<>>)
       IN  IF r.ok THEN r ELSE [ok |-> FALSE, obj |-> <<>>]

HasMember(object, k) == \E j \in 1..Len(object) : object[j].k = k

\* object[k]; a member that is absent reads as undefined.
Undefined == [t |-> "undefined", v |-> 0]
Get(object, k) ==
  IF HasMember(object, k) THEN object[CHOOSE j \in 1..Len(object) : object[j].k = k].v ELSE Undefined

(***************************************************************************)
(* JavaScript number conversion, as the comparisons of the code apply it.  *)
(***************************************************************************)
\* ToNumber of a JSON value: [nan, n]. undefined and a non-numeric string are
\* NaN, null is 0.
ToNumber(v) ==
  IF v.t = "number" THEN [nan |-> FALSE, n |-> v.v]
  ELSE IF v.t = "null" THEN [nan |-> FALSE, n |-> 0]
  ELSE IF v.t = "string" /\ \A i \in 1..Len(v.v) : IsDigit(v.v[i])
       THEN [nan |-> FALSE, n |-> DigitsValue(v.v)]
  ELSE [nan |-> TRUE, n |-> 0]

\* a < b for a = [nan, n]: every comparison with NaN is false.
NumLess(a, b) == ~a.nan /\ a.n < b

\* A value interpolated into a string or set as a header.
ToText(v) ==
  IF v.t = "string" THEN v.v
  ELSE IF v.t = "number" THEN NumberToString(v.v)
  ELSE IF v.t = "null" THEN <<110, 117, 108, 108>>
  ELSE <<117, 110, 100, 101, 102, 105, 110, 101, 100>>

(***************************************************************************)
(* constants.ts                                                            *)
(***************************************************************************)
\* Milliseconds in a second: Date.now() against exp, which is in seconds.
MsPerSec == 1000

\* new Intl.DateTimeFormat().resolvedOptions().timeZone, read once: "UTC".
BEREAL_TIMEZONE == <<85, 84, 67>>

\* decodeHex("3536...6233"): the 32 bytes "56037f4af22fb6960f3cd014e2ec71b3".
BEREAL_HMAC_KEY ==
  <<53, 54, 48, 51, 55, 102, 52, 97, 102, 50, 50, 102, 98, 54, 57, 54, 48,
    102, 51, 99, 100, 48, 49, 52, 101, 50, 101, 99, 55, 49, 98, 51>>

(***************************************************************************)
(* utils.ts                                                                *)
(***************************************************************************)
RECURSIVE WeightedSum(_, _)
WeightedSum(s, w) ==
  IF s = <<>> THEN 0 ELSE (Head(s) * w + WeightedSum(Tail(s), w + 1)) % 65536

\* createHmac("sha256", key).update(msg, "utf8").digest() of node:crypto: 32
\* bytes that are a function of the key and the message. The digest is a
\* stand-in of the right length; nothing below reads more of it than that.
HmacSha256(key, msg) ==
  LET k == WeightedSum(key, 1)
      m == WeightedSum(msg, 1)
  IN  [i \in 1..32 |-> (k * i + m * (i + 7) + i * i) % 256]

\* Math.floor(Date.now() / 1000)
NowSeconds(nowMs) == nowMs \div MsPerSec

SignaturePrefixOmitsTimestamp(deviceId, timestamp) ==
  encodeBase64(<<49, 58, 58>>
    \o HmacSha256(BEREAL_HMAC_KEY,
         encodeBase64(deviceId \o BEREAL_TIMEZONE \o NumberToString(timestamp))))

\* createBeRealSignature(deviceId, timestamp)
createBeRealSignature(deviceId, timestamp) ==
  LET payload == deviceId \o BEREAL_TIMEZONE \o NumberToString(timestamp)
      hashBuffer == HmacSha256(BEREAL_HMAC_KEY, encodeBase64(payload))
      prefixBuffer == <<49, 58>> \o NumberToString(timestamp) \o <<58>>
      combined == prefixBuffer \o hashBuffer
  IN  encodeBase64(combined)


\* JSON.parse(new TextDecoder().decode(decodeBase64(segment))): [error, object].
\* A missing segment (undefined) is no base64 either.
DecodeSegment(segs, i) ==
  IF i > Len(segs) THEN [error |-> "DecodeError", obj |-> <<>>]
  ELSE LET raw == decodeBase64(segs[i])
       IN  IF ~raw.ok THEN [error |-> "DecodeError", obj |-> <<>>]
           ELSE LET j == JsonParse(TextDecode(raw.bytes))
                IN  IF j.ok THEN [error |-> "none", obj |-> j.obj]
                    ELSE [error |-> "SyntaxError", obj |-> <<>>]

ParseNeverThrows(token) ==
  LET segs == Split(token)
      jwtHeader == DecodeSegment(segs, 1)
      jwtPayload == DecodeSegment(segs, 2)
  IN  [error |-> "none", header |-> jwtHeader.obj, payload |-> jwtPayload.obj]

\* parseAccessToken(token): [error, header, payload]; error # "none" is the
\* exception thrown, by the header segment first.
parseAccessToken(token) ==
  LET segs == Split(token)
      jwtHeader == DecodeSegment(segs, 1)
      jwtPayload == DecodeSegment(segs, 2)
  IN  IF jwtHeader.error # "none"
      THEN [error |-> jwtHeader.error, header |-> <<>>, payload |-> <<>>]
      ELSE IF jwtPayload.error # "none"
      THEN [error |-> jwtPayload.error, header |-> <<>>, payload |-> <<>>]
      ELSE [error |-> "none", header |-> jwtHeader.obj, payload |-> jwtPayload.obj]

ExpiredFromExpirySecond(token, nowMs) ==
  LET parsed == parseAccessToken(token)
  IN  IF parsed.error # "none" THEN [error |-> parsed.error, value |-> FALSE]
      ELSE [error |-> "none",
            value |-> NumLess(ToNumber(Get(parsed.payload, <<101, 120, 112>>)),
                              NowSeconds(nowMs) + 1)]

\* isAccessTokenExpired(token) at Date.now() = nowMs: [error, value].
isAccessTokenExpired(token, nowMs) ==
  LET parsed == parseAccessToken(token)
  IN  IF parsed.error # "none" THEN [error |-> parsed.error, value |-> FALSE]
      ELSE [error |-> "none",
            value |-> NumLess(ToNumber(Get(parsed.payload, <<101, 120, 112>>)),
                              NowSeconds(nowMs))]

(***************************************************************************)
(* The inputs the model draws from.                                        *)
(***************************************************************************)
\* Date.now() in milliseconds: the start of every second of the clock and the
\* millisecond after it.
Instants == {s * MsPerSec + d : s \in 0..MaxSec, d \in {0, 1}}

\* The device id of the client objects: "dev-1".
DeviceIds == {<<100, 101, 118, 45, 49>>}

\* The device ids createBeRealSignature is called with: "dev-1" and "dev-2".
SignedDeviceIds == DeviceIds \cup {<<100, 101, 118, 45, 50>>}

\* {"alg":"HS256","typ":"JWT"}
TokenHeader ==
  <<Member(<<97, 108, 103>>, Str(<<72, 83, 50, 53, 54>>)),
    Member(<<116, 121, 112>>, Str(<<74, 87, 84>>))>>

\* {"user_id":...,"phone_number_country_code":...,"exp":...}
TokenPayload(userId, countryCode, exp) ==
  <<Member(<<117, 115, 101, 114, 95, 105, 100>>, Str(userId)),
    Member(<<112, 104, 111, 110, 101, 95, 110, 117, 109, 98, 101, 114, 95, 99,
             111, 117, 110, 116, 114, 121, 95, 99, 111, 100, 101>>, Str(countryCode)),
    Member(<<101, 120, 112>>, Num(exp))>>

\* The compact serialisation the issuer writes: base64url(header) "."
\* base64url(payload) "." signature; the signature segment is "sig".
MakeToken(header, payload) ==
  encodeBase64Url(JsonStringify(header)) \o <<46>>
    \o encodeBase64Url(JsonStringify(payload)) \o <<46, 115, 105, 103>>

\* The users "u1" (country code "33") and "u2" (country code "81").
Users == {<<<<117, 49>>, <<51, 51>>>>, <<<<117, 50>>, <<56, 49>>>>}

\* The expiry seconds of the credentials: an early and a late one.
Expiries == {1, MaxSec}

\* The credentials handed to a session: that of "u1", which expires early,
\* and that of "u2", which expires late.
WellFormedTokens ==
  {MakeToken(TokenHeader, TokenPayload(<<117, 49>>, <<51, 51>>, 1)),
   MakeToken(TokenHeader, TokenPayload(<<117, 50>>, <<56, 49>>, MaxSec))}

\* The first segment of the well-formed tokens.
HeaderSegment == encodeBase64Url(JsonStringify(TokenHeader))

\* Strings that are no token: "bad" (no dot, and no JSON in its only
\* segment), and a header segment alone (no second segment).
MalformedTokens == {<<98, 97, 100>>, HeaderSegment}

\* More of them: a second segment that is base64 but no JSON ("bad"), and
\* one that is no base64 ("!!").
MalformedSegmentTokens ==
  {HeaderSegment \o <<46, 98, 97, 100, 46, 115, 105, 103>>,
   HeaderSegment \o <<46, 33, 33, 46, 115, 105, 103>>}

Tokens == WellFormedTokens \cup MalformedTokens

\* parseAccessToken of every token of the model, computed once.
ParsedTokens == {<<t, parseAccessToken(t)>> : t \in Tokens}

Parsed(t) == (CHOOSE p \in ParsedTokens : p[1] = t)[2]

\* createBeRealSignature of every device id and second of the model, computed
\* once.
Signatures ==
  {<<d, s, createBeRealSignature(d, s)>> : d \in SignedDeviceIds, s \in 0..MaxSec}

\* createBeRealSignature(deviceId): the timestamp defaults to
\* Math.floor(Date.now() / 1000).
createBeRealSignatureNow(deviceId, nowMs) ==
  (CHOOSE p \in Signatures : p[1] = deviceId /\ p[2] = NowSeconds(nowMs))[3]

NoHeaders == [h \in {} |-> <<>>]

\* The extraHeaders a caller passes: none, a bereal-signature of its own
\* ("sig"), or an authorization ("own") and a bereal-device-id ("dev-x") of
\* its own.
ExtraHeaderChoices ==
  {NoHeaders,
   [h \in {"bereal-signature"} |-> <<115, 105, 103>>],
   [h \in {"authorization", "bereal-device-id"} |->
      IF h = "authorization" THEN <<111, 119, 110>> ELSE <<100, 101, 118, 45, 120>>]}

(***************************************************************************)
(* constants.ts: the default header set.                                   *)
(***************************************************************************)
\* {...a, ...b}: b's entries win.
Spread(a, b) ==
  [h \in DOMAIN a \cup DOMAIN b |-> IF h \in DOMAIN b THEN b[h] ELSE a[h]]

\* BEREAL_DEFAULT_HEADERS(deviceId, extraHeaders), evaluated at nowMs.
BEREAL_DEFAULT_HEADERS(deviceId, extraHeaders, nowMs) ==
  Spread(
    [h \in {"bereal-signature", "user-agent", "bereal-app-language",
            "bereal-os-version", "bereal-app-version", "bereal-timezone",
            "bereal-platform", "bereal-app-version-code",
            "bereal-device-language", "accept-language", "bereal-device-id"} |->
       CASE h = "bereal-signature" -> createBeRealSignatureNow(deviceId, nowMs)
         [] h = "user-agent" ->
              <<66, 101, 82, 101, 97, 108, 47, 52, 46, 50, 50, 46, 49, 32, 40,
                65, 108, 101, 120, 105, 115, 66, 97, 114, 114, 101, 121, 97,
                116, 46, 66, 101, 82, 101, 97, 108, 59, 32, 98, 117, 105, 108,
                100, 58, 50, 48, 52, 48, 52, 59, 32, 105, 79, 83, 32, 49, 54,
                46, 54, 46, 48, 41>>
         [] h = "bereal-app-language" -> <<101, 110, 45, 85, 83>>
         [] h = "bereal-os-version" -> <<49, 54, 46, 54>>
         [] h = "bereal-app-version" -> <<52, 46, 50, 50, 46, 49>>
         [] h = "bereal-timezone" -> BEREAL_TIMEZONE
         [] h = "bereal-platform" -> <<105, 79, 83>>
         [] h = "bereal-app-version-code" -> <<50, 48, 52, 48, 52>>
         [] h = "bereal-device-language" -> <<101, 110>>
         [] h = "accept-language" -> <<101, 110, 45, 85, 83>>
         [] OTHER -> deviceId],
    extraHeaders)

(***************************************************************************)
(* ky: an instance is its default headers and its beforeRequest hooks; a   *)
(* request is built from the instance at the call and reaches fetch later, *)
(* after the hooks have run.                                               *)
(***************************************************************************)
\* ky.extend({prefixUrl, headers, hooks: {beforeRequest: [hook]}})
KyCreate(prefixUrl, headers) ==
  [prefixUrl |-> prefixUrl, headers |-> headers, beforeRequest |-> <<"bereal-signature">>]

KyExtendDropsHeaders(client, headers) == client

KyExtendReplacesHeaders(client, headers) == [client EXCEPT !.headers = headers]

KyExtendAuthorizationOnly(client, headers) ==
  [client EXCEPT !.headers =
     [h \in DOMAIN client.headers \cup {"authorization"} |->
        IF h = "authorization" THEN headers[h] ELSE client.headers[h]]]

\* instance.extend({headers}): the headers are merged over the instance's, the
\* hooks are kept.
KyExtend(client, headers) == [client EXCEPT !.headers = Spread(client.headers, headers)]

\* instance.get(path) / instance.post(path): the Request of the call.
KyRequest(client, method, path) ==
  [method |-> method, prefixUrl |-> client.prefixUrl, path |-> path,
   headers |-> client.headers, beforeRequest |-> client.beforeRequest,
   retryCount |-> 0]

\* The retry option none of the three clients sets: ky's default, at most two
\* retries of a request whose method and response status are in these sets.
KyRetryLimit == 2
KyRetryMethods == {"GET", "PUT", "HEAD", "DELETE", "OPTIONS", "TRACE"}
KyRetryStatusCodes == {408, 413, 429, 500, 502, 503, 504}

\* The response statuses of the model: success, a client error, a server error.
Statuses == {200, 401, 500}

\* Whether ky sends the request again after a response of this status.
KyRetries(request, status) ==
  /\ request.method \in KyRetryMethods
  /\ status \in KyRetryStatusCodes
  /\ request.retryCount < KyRetryLimit

HookKeepsBuiltSignature(request, deviceId, nowMs) == request

HookSignsOtherDevice(request, deviceId, nowMs) ==
  [request EXCEPT !.headers =
     [h \in DOMAIN request.headers \cup {"bereal-signature"} |->
        IF h = "bereal-signature"
        THEN createBeRealSignatureNow(<<100, 101, 118, 45, 50>>, nowMs)
        ELSE request.headers[h]]]

\* The beforeRequest hook of the three clients:
\* request.headers.set("bereal-signature", createBeRealSignature(this.deviceId)).
SignatureHook(request, deviceId, nowMs) ==
  [request EXCEPT !.headers =
     Spread(request.headers,
            [h \in {"bereal-signature"} |-> createBeRealSignatureNow(deviceId, nowMs)])]

(***************************************************************************)
(* The state.                                                              *)
(***************************************************************************)
VARIABLES
  now,       \* Date.now(), in milliseconds
  obj,       \* the client object the program holds: its class and its fields
  replaced,  \* whether the accessToken setter was called since construction
  recovered, \* whether a replacement has succeeded on a session that was expired
  extras,    \* the extraHeaders the client object was constructed with
  succeeded, \* the paths of the sign-in requests that were answered with success
  pending,   \* the requests ky has built and not yet handed to fetch
  inflight,  \* the requests handed to fetch and not yet answered
  wire,      \* the requests the step just taken handed to fetch
  ret        \* how the call made by the step just taken completed

vars == <<now, obj, replaced, recovered, extras, succeeded, pending, inflight, wire, ret>>

NoObject == [class |-> "none"]
NoCall == [op |-> "none", outcome |-> "none", token |-> <<>>, value |-> FALSE]

Returned(op, token, value) ==
  [op |-> op, outcome |-> "returned", token |-> token, value |-> value]
\* An async method that has built its request and awaits the response.
Awaiting(op) == [op |-> op, outcome |-> "awaiting", token |-> <<>>, value |-> FALSE]
Threw(op, token, error) == [op |-> op, outcome |-> error, token |-> token, value |-> FALSE]

\* The program awaits each call before it makes the next one
\* (tests/mod_test.ts): no call is made on the object while a request is
\* pending.
OwnerRuns == pending = <<>> /\ inflight = <<>>

EndpointOps ==
  {"getTerms", "getPersonMe", "getSettings", "getFeedsFriendsV1",
   "getRecommendationsContacts", "getRecommendationsFriendsAndReverse",
   "getContentPostsMultiFormatUploadUrl"}

(***************************************************************************)
(* mobile-l7.ts: class BeReal.                                             *)
(***************************************************************************)
\* payload.exp * 1000, as a number: [nan, n].
ExpMillis(payload) ==
  LET x == ToNumber(Get(payload, <<101, 120, 112>>))
  IN  [nan |-> x.nan, n |-> x.n * MsPerSec]

\* get accessTokenExpiresAt(): new Date(this.accessTokenPayload.exp * 1000)
accessTokenExpiresAt(o) == ExpMillis(o.accessTokenPayload)

ExpiredFlagOfConstruction(o, nowMs) == FALSE

ExpiredByWholeSeconds(o, nowMs) ==
  NumLess(ToNumber(Get(o.accessTokenPayload, <<101, 120, 112>>)), NowSeconds(nowMs))

\* isAccessTokenExpired(): this.accessTokenExpiresAt < new Date()
BeRealIsAccessTokenExpired(o, nowMs) == NumLess(accessTokenExpiresAt(o), nowMs)

\* The five accessors of a session, read at nowMs.
Accessors(o, nowMs) ==
  [accessToken |-> o._accessToken,
   userId |-> o._userId,
   accessTokenPhoneNumberCountryCode |->
     Get(o.accessTokenPayload,
         <<112, 104, 111, 110, 101, 95, 110, 117, 109, 98, 101, 114, 95, 99,
           111, 117, 110, 116, 114, 121, 95, 99, 111, 100, 101>>),
   accessTokenExpiresAt |-> accessTokenExpiresAt(o),
   isAccessTokenExpired |-> BeRealIsAccessTokenExpired(o, nowMs)]

\* The authorization and bereal-user-id headers of a credential.
CredentialHeaders(token, userId) ==
  [h \in {"authorization", "bereal-user-id"} |->
     IF h = "authorization" THEN <<66, 101, 97, 114, 101, 114, 32>> \o token
     ELSE ToText(userId)]

\* new BeReal(accessToken, deviceId, extraHeaders)
NewBeReal(accessToken, deviceId, extraHeaders) ==
  /\ obj = NoObject
  /\ \E parsed \in {Parsed(accessToken)} :
       \E userId \in {Get(parsed.payload, <<117, 115, 101, 114, 95, 105, 100>>)} :
         IF parsed.error # "none"
         THEN /\ ret' = Threw("new BeReal", accessToken, parsed.error)
              /\ obj' = obj
         ELSE IF NumLess(ExpMillis(parsed.payload), now)
         THEN /\ ret' = Threw("new BeReal", accessToken, "BeRealAccessTokenExpiredError")
              /\ obj' = obj
         ELSE /\ ret' = Returned("new BeReal", accessToken, FALSE)
              /\ obj' = [class |-> "BeReal",
                         accessTokenPayload |-> parsed.payload,
                         _accessToken |-> accessToken,
                         _userId |-> userId,
                         deviceId |-> deviceId,
                         client |-> KyCreate("https://mobile-l7.bereal.com/api",
                           BEREAL_DEFAULT_HEADERS(deviceId,
                             Spread(CredentialHeaders(accessToken, userId), extraHeaders),
                             now))]
  /\ extras' = extraHeaders
  /\ wire' = <<>>
  /\ UNCHANGED <<now, replaced, recovered, succeeded, pending, inflight>>

SetAccessTokenKeepsPayload(token) ==
  /\ obj.class = "BeReal"
  /\ \E parsed \in {Parsed(token)} :
       \E userId \in {Get(parsed.payload, <<117, 115, 101, 114, 95, 105, 100>>)} :
         IF parsed.error # "none"
         THEN /\ ret' = Threw("set accessToken", token, parsed.error)
              /\ obj' = obj
         ELSE IF NumLess(ExpMillis(parsed.payload), now)
         THEN /\ ret' = Threw("set accessToken", token, "BeRealAccessTokenExpiredError")
              /\ obj' = obj
         ELSE /\ ret' = Returned("set accessToken", token, FALSE)
              /\ obj' = [obj EXCEPT
                           !._accessToken = token,
                           !._userId = userId,
                           !.client = KyExtend(obj.client,
                                               CredentialHeaders(token, userId))]
  /\ replaced' = TRUE
  /\ recovered' = (recovered \/ (ret'.outcome = "returned" /\ BeRealIsAccessTokenExpired(obj, now)))
  /\ wire' = <<>>
  /\ UNCHANGED <<now, extras, succeeded, pending, inflight>>

\* set accessToken(token)
SetAccessToken(token) ==
  /\ obj.class = "BeReal"
  /\ \E parsed \in {Parsed(token)} :
       \E userId \in {Get(parsed.payload, <<117, 115, 101, 114, 95, 105, 100>>)},
          decoded \in {[obj EXCEPT !.accessTokenPayload = parsed.payload]} :
         IF parsed.error # "none"
         THEN /\ ret' = Threw("set accessToken", token, parsed.error)
              /\ obj' = obj
         ELSE IF NumLess(ExpMillis(parsed.payload), now)
         THEN /\ ret' = Threw("set accessToken", token, "BeRealAccessTokenExpiredError")
              /\ obj' = decoded
         ELSE /\ ret' = Returned("set accessToken", token, FALSE)
              /\ obj' = [decoded EXCEPT
                           !._accessToken = token,
                           !._userId = userId,
                           !.client = KyExtend(decoded.client,
                                               CredentialHeaders(token, userId))]
  /\ replaced' = TRUE
  /\ recovered' = (recovered \/ (ret'.outcome = "returned" /\ BeRealIsAccessTokenExpired(obj, now)))
  /\ wire' = <<>>
  /\ UNCHANGED <<now, extras, succeeded, pending, inflight>>

\* A call of isAccessTokenExpired() by the program.
CallIsAccessTokenExpired ==
  /\ obj.class = "BeReal"
  /\ OwnerRuns
  /\ ret' = Returned("isAccessTokenExpired", <<>>, BeRealIsAccessTokenExpired(obj, now))
  /\ wire' = <<>>
  /\ UNCHANGED <<now, obj, replaced, recovered, extras, succeeded, pending, inflight>>

\* this.client.get(path): the request is built from the instance's headers at
\* the call; the method then awaits it.
ClientGet(op, path) ==
  /\ pending' = Append(pending, KyRequest(obj.client, "GET", path))
  /\ ret' = Awaiting(op)

\* The body every endpoint method has: the expiry check, then the request.
\* The search parameters of a request are not modelled.
Endpoint(op, path) ==
  /\ obj.class = "BeReal"
  /\ OwnerRuns
  /\ IF BeRealIsAccessTokenExpired(obj, now)
     THEN /\ ret' = Threw(op, <<>>, "BeRealAccessTokenExpiredError")
          /\ pending' = pending
     ELSE ClientGet(op, path)
  /\ wire' = <<>>
  /\ UNCHANGED <<now, obj, replaced, recovered, extras, succeeded, inflight>>

getTerms == Endpoint("getTerms", "terms")

getPersonMe == Endpoint("getPersonMe", "person/me")

GetSettingsWithoutCheck ==
  /\ obj.class = "BeReal"
  /\ OwnerRuns
  /\ ClientGet("getSettings", "settings")
  /\ wire' = <<>>
  /\ UNCHANGED <<now, obj, replaced, recovered, extras, succeeded, inflight>>

getSettings == Endpoint("getSettings", "settings")

getFeedsFriendsV1 == Endpoint("getFeedsFriendsV1", "feeds/friends-v1")

getRecommendationsContacts ==
  Endpoint("getRecommendationsContacts", "recommendations/contacts")

getRecommendationsFriendsAndReverse ==
  Endpoint("getRecommendationsFriendsAndReverse", "recommendations/friends-and-reverse")

getContentPostsMultiFormatUploadUrl ==
  Endpoint("getContentPostsMultiFormatUploadUrl", "content/posts/multi-format-upload-url")

(***************************************************************************)
(* auth-l7.ts: classes BeRealAuthVonage and BeRealAuth.                    *)
(***************************************************************************)
NewAuthClient(class, prefixUrl, deviceId, extraHeaders) ==
  /\ obj = NoObject
  /\ obj' = [class |-> class,
             deviceId |-> deviceId,
             client |-> KyCreate(prefixUrl,
                                 BEREAL_DEFAULT_HEADERS(deviceId, extraHeaders, now))]
  /\ ret' = Returned("new " \o class, <<>>, FALSE)
  /\ extras' = extraHeaders
  /\ wire' = <<>>
  /\ UNCHANGED <<now, replaced, recovered, succeeded, pending, inflight>>

\* new BeRealAuthVonage(deviceId, extraHeaders)
NewBeRealAuthVonage(deviceId, extraHeaders) ==
  NewAuthClient("BeRealAuthVonage", "https://auth-l7.bereal.com/api/vonage",
                deviceId, extraHeaders)

\* new BeRealAuth(deviceId, extraHeaders)
NewBeRealAuth(deviceId, extraHeaders) ==
  NewAuthClient("BeRealAuth", "https://auth-l7.bereal.com", deviceId, extraHeaders)

\* this.client.post(path, {json}); the JSON body is not modelled.
ClientPost(class, op, path) ==
  /\ obj.class = class
  /\ OwnerRuns
  /\ pending' = Append(pending, KyRequest(obj.client, "POST", path))
  /\ ret' = Awaiting(op)
  /\ wire' = <<>>
  /\ UNCHANGED <<now, obj, replaced, recovered, extras, succeeded, inflight>>

dataExchange == ClientPost("BeRealAuthVonage", "dataExchange", "data-exchange")

requestCode == ClientPost("BeRealAuthVonage", "requestCode", "request-code")

checkCode == ClientPost("BeRealAuthVonage", "checkCode", "check-code")

\* BeRealAuth.token(json)
BeRealAuth_token == ClientPost("BeRealAuth", "token", "token")

(***************************************************************************)
(* ky and the clock.                                                       *)
(***************************************************************************)
\* ky runs the beforeRequest hooks of the oldest pending request and hands the
\* request to fetch.
Fetch ==
  /\ pending # <<>>
  /\ \E sent \in {SignatureHook(Head(pending), obj.deviceId, now)} :
       /\ wire' = <<sent>>
       /\ inflight' = Append(inflight, sent)
  /\ pending' = Tail(pending)
  /\ ret' = NoCall
  /\ UNCHANGED <<now, obj, replaced, recovered, extras, succeeded>>

\* The response to the oldest request in flight arrives. ky resolves the call
\* on a success status, sends the request again when its retry option says
\* so, and otherwise rejects the call with HTTPError.
Respond ==
  /\ inflight # <<>>
  /\ \E status \in Statuses :
       \E request \in {Head(inflight)} :
         IF status = 200
         THEN /\ ret' = [op |-> request.path, outcome |-> "resolved",
                         token |-> <<>>, value |-> FALSE]
              /\ succeeded' = IF request.method = "POST"
                              THEN succeeded \cup {request.path} ELSE succeeded
              /\ pending' = pending
         ELSE IF KyRetries(request, status)
         THEN /\ ret' = NoCall
              /\ succeeded' = succeeded
              /\ pending' = Append(pending,
                                   [request EXCEPT !.retryCount = request.retryCount + 1])
         ELSE /\ ret' = [op |-> request.path, outcome |-> "HTTPError",
                         token |-> <<>>, value |-> FALSE]
              /\ succeeded' = succeeded
              /\ pending' = pending
  /\ inflight' = Tail(inflight)
  /\ wire' = <<>>
  /\ UNCHANGED <<now, obj, replaced, recovered, extras>>

\* Time passes.
Tick ==
  /\ \E t \in Instants : t > now /\ now' = t
  /\ wire' = <<>>
  /\ ret' = NoCall
  /\ UNCHANGED <<obj, replaced, recovered, extras, succeeded, pending, inflight>>

Init ==
  /\ now = 0
  /\ obj = NoObject
  /\ replaced = FALSE
  /\ recovered = FALSE
  /\ extras = NoHeaders
  /\ succeeded = {}
  /\ pending = <<>>
  /\ inflight = <<>>
  /\ wire = <<>>
  /\ ret = NoCall

Construct ==
  \E d \in DeviceIds, x \in ExtraHeaderChoices :
    \/ \E t \in Tokens : NewBeReal(t, d, x)
    \/ NewBeRealAuthVonage(d, x)
    \/ NewBeRealAuth(d, x)

Replace == \E t \in Tokens : SetAccessToken(t)

Next ==
  \/ Construct
  \/ Replace
  \/ CallIsAccessTokenExpired
  \/ getTerms
  \/ getPersonMe
  \/ getSettings
  \/ getFeedsFriendsV1
  \/ getRecommendationsContacts
  \/ getRecommendationsFriendsAndReverse
  \/ getContentPostsMultiFormatUploadUrl
  \/ dataExchange
  \/ requestCode
  \/ checkCode
  \/ BeRealAuth_token
  \/ Fetch
  \/ Respond
  \/ Tick

Spec == Init /\ [][Next]_vars

(***************************************************************************)
(* utils.ts called directly: the token codec and the signature generator.  *)
(***************************************************************************)
\* The header/payload pairs tokens are built from: those of the session
\* tokens, and a payload whose user id is "ab?".
TokenPairs ==
  {<<TokenHeader, TokenPayload(u[1], u[2], e)>> :
     u \in Users \cup {<<<<97, 98, 63>>, <<51, 51>>>>}, e \in Expiries}

\* The timestamps passed to createBeRealSignature: the seconds of the clock
\* and a ten-digit epoch second.
Timestamps == (0..MaxSec) \cup {1700000000}

\* parseAccessToken(token) of a token built from a known header and payload.
CallParseAccessToken ==
  /\ \E p \in TokenPairs :
       \E token \in {MakeToken(p[1], p[2])} :
         \E parsed \in {parseAccessToken(token)} :
           ret' = [op |-> "parseAccessToken",
                   outcome |-> IF parsed.error = "none" THEN "returned" ELSE parsed.error,
                   token |-> token, value |-> parsed,
                   header |-> p[1], payload |-> p[2]]
  /\ UNCHANGED <<now, obj, replaced, recovered, extras, succeeded, pending, inflight, wire>>

\* parseAccessToken(token) of a string that is no token.
CallParseMalformed ==
  /\ \E token \in MalformedTokens \cup MalformedSegmentTokens :
       \E parsed \in {parseAccessToken(token)} :
         ret' = Threw("parseAccessToken", token, parsed.error)
  /\ UNCHANGED <<now, obj, replaced, recovered, extras, succeeded, pending, inflight, wire>>

\* isAccessTokenExpired(token) of utils.ts, at Date.now() = now.
CallUtilsIsAccessTokenExpired ==
  /\ \E p \in TokenPairs :
       \E token \in {MakeToken(p[1], p[2])} :
         \E r \in {isAccessTokenExpired(token, now)} :
           ret' = [op |-> "utils.isAccessTokenExpired",
                   outcome |-> IF r.error = "none" THEN "returned" ELSE r.error,
                   token |-> token, value |-> r.value,
                   header |-> p[1], payload |-> p[2]]
  /\ UNCHANGED <<now, obj, replaced, recovered, extras, succeeded, pending, inflight, wire>>

\* isAccessTokenExpired(token) of a string that is no token.
CallUtilsIsAccessTokenExpiredMalformed ==
  /\ \E token \in MalformedTokens \cup MalformedSegmentTokens :
       \E r \in {isAccessTokenExpired(token, now)} :
         ret' = [op |-> "utils.isAccessTokenExpired",
                 outcome |-> IF r.error = "none" THEN "returned" ELSE r.error,
                 token |-> token, value |-> r.value]
  /\ UNCHANGED <<now, obj, replaced, recovered, extras, succeeded, pending, inflight, wire>>

\* createBeRealSignature(deviceId, timestamp)
CallCreateBeRealSignature ==
  /\ \E d \in SignedDeviceIds, ts \in Timestamps :
       ret' = [op |-> "createBeRealSignature", outcome |-> "returned", token |-> <<>>,
               value |-> createBeRealSignature(d, ts),
               deviceId |-> d, timestampGiven |-> TRUE, timestamp |-> ts]
  /\ UNCHANGED <<now, obj, replaced, recovered, extras, succeeded, pending, inflight, wire>>

\* createBeRealSignature(deviceId): the timestamp is omitted.
CallCreateBeRealSignatureNow ==
  /\ \E d \in SignedDeviceIds :
       ret' = [op |-> "createBeRealSignature", outcome |-> "returned", token |-> <<>>,
               value |-> createBeRealSignatureNow(d, now),
               deviceId |-> d, timestampGiven |-> FALSE, timestamp |-> 0]
  /\ UNCHANGED <<now, obj, replaced, recovered, extras, succeeded, pending, inflight, wire>>

NextUtils ==
  \/ CallParseAccessToken
  \/ CallParseMalformed
  \/ CallUtilsIsAccessTokenExpired
  \/ CallUtilsIsAccessTokenExpiredMalformed
  \/ CallCreateBeRealSignature
  \/ CallCreateBeRealSignatureNow
  \/ Tick

SpecUtils == Init /\ [][NextUtils]_vars

(***************************************************************************)
(* Properties.                                                             *)
(***************************************************************************)
\* The expiry instant, in milliseconds, of the credential string a session
\* holds, read from the token itself.
HeldExpiry(o) == Get(Parsed(o._accessToken).payload, <<101, 120, 112>>).v * MsPerSec

\* The exp of a payload a token was built from.
KnownExp(payload) == Get(payload, <<101, 120, 112>>).v

\* C1: when the accessToken setter of a session whose credential is not
\* expired is given a well-formed credential that is already expired, it
\* throws BeRealAccessTokenExpiredError and all five accessors return what
\* they returned before the call.
SwapAtomicity ==
  [][(/\ ret'.op = "set accessToken"
      /\ ret'.outcome = "BeRealAccessTokenExpiredError"
      /\ ~BeRealIsAccessTokenExpired(obj, now))
       => Accessors(obj', now') = Accessors(obj, now)]_vars

\* C2: in every state of a session the payload it holds is the decoding of the
\* credential string it holds.
PayloadInSync ==
  obj.class = "BeReal" => obj.accessTokenPayload = Parsed(obj._accessToken).payload

EndpointFailsFast ==
  [][(ret'.op \in EndpointOps /\ BeRealIsAccessTokenExpired(obj, now))
       => /\ ret'.outcome = "BeRealAccessTokenExpiredError"
          /\ pending' = pending
          /\ wire' = <<>>
          /\ obj' = obj]_vars

EndpointRefusedWhenExpired ==
  /\ ret.op = "getSettings"
  /\ ret.outcome = "BeRealAccessTokenExpiredError"
  /\ BeRealIsAccessTokenExpired(obj, now)
  /\ pending = <<>>

\* C5: for a well-formed credential, the constructor and the setter throw
\* BeRealAccessTokenExpiredError exactly when isAccessTokenExpired(token) of
\* utils.ts is true at the same instant.
SameExpiryRule ==
  (ret.op \in {"new BeReal", "set accessToken"} /\ Parsed(ret.token).error = "none")
    => ((ret.outcome = "BeRealAccessTokenExpiredError")
          <=> isAccessTokenExpired(ret.token, now).value)

\* C6: isAccessTokenExpired(token) is true exactly when the payload's exp is
\* strictly less than the current time in whole seconds: false at exp = now,
\* true at exp = now - 1.
UtilsExpiryBoundary ==
  (ret.op = "utils.isAccessTokenExpired" /\ ret.outcome = "returned")
    => /\ ret.value <=> (KnownExp(ret.payload) < now \div 1000)
       /\ KnownExp(ret.payload) = now \div 1000 => ~ret.value
       /\ KnownExp(ret.payload) = (now \div 1000) - 1 => ret.value

NotExpiredInsideExpirySecond ==
  /\ ret.op = "utils.isAccessTokenExpired"
  /\ ret.outcome = "returned"
  /\ KnownExp(ret.payload) = now \div 1000
  /\ now % 1000 # 0
  /\ ~ret.value

\* C7: isAccessTokenExpired() of a session that was constructed and never had
\* its credential replaced is false at every instant up to the expiry of its
\* credential and true at every later one, and whenever it is true every
\* endpoint method throws BeRealAccessTokenExpiredError.
ExpiryComputedOnEveryCall ==
  (obj.class = "BeReal" /\ ~replaced)
    => /\ ret.op = "isAccessTokenExpired" => (ret.value <=> HeldExpiry(obj) < now)
       /\ (ret.op \in EndpointOps /\ HeldExpiry(obj) < now)
            => ret.outcome = "BeRealAccessTokenExpiredError"

IdleSessionReportsExpired ==
  /\ obj.class = "BeReal"
  /\ ~replaced
  /\ ret.op = "isAccessTokenExpired"
  /\ ret.value
  /\ HeldExpiry(obj) < now

\* C8: the bereal-signature header of every request handed to fetch, by any
\* of the three clients, is the signature of the client's device id at the
\* second of dispatch.
SignatureFreshAtDispatch ==
  \A i \in 1..Len(wire) :
    wire[i].headers["bereal-signature"]
      = createBeRealSignature(obj.deviceId, now \div 1000)

DispatchedAfterReplacementInLaterSecond ==
  /\ wire # <<>>
  /\ replaced
  /\ "bereal-signature" \in DOMAIN obj.client.headers
  /\ obj.client.headers["bereal-signature"] = createBeRealSignature(obj.deviceId, 0)
  /\ wire[1].headers["bereal-signature"] # obj.client.headers["bereal-signature"]

\* C9: createBeRealSignature(deviceId, timestamp) is the base64 of the bytes
\* "1:" timestamp ":" followed by HMAC-SHA256(key, base64(deviceId timezone
\* timestamp)); an omitted timestamp is the current time in whole seconds.
SignatureLayout ==
  ret.op = "createBeRealSignature"
    => LET ts == IF ret.timestampGiven THEN ret.timestamp ELSE now \div 1000
           prefix == <<49, 58>> \o NumberToString(ts) \o <<58>>
           mac == HmacSha256(BEREAL_HMAC_KEY,
                             encodeBase64(ret.deviceId \o BEREAL_TIMEZONE \o NumberToString(ts)))
           raw == decodeBase64(ret.value)
       IN  /\ ret.value = encodeBase64(prefix \o mac)
           /\ raw.ok
           /\ SubSeq(raw.bytes, 1, Len(prefix)) = prefix
           /\ SubSeq(raw.bytes, Len(prefix) + 1, Len(raw.bytes)) = mac

SignedWithOmittedTimestamp ==
  /\ ret.op = "createBeRealSignature"
  /\ ~ret.timestampGiven
  /\ now \div 1000 > 0

\* C10: parseAccessToken of a token made of three base64url segments built
\* from a known header and payload returns that header and that payload.
TokenRoundTrip ==
  (ret.op = "parseAccessToken" /\ "header" \in DOMAIN ret)
    => /\ ret.outcome = "returned"
       /\ ret.value.header = ret.header
       /\ ret.value.payload = ret.payload

\* "Bearer "
Bearer == <<66, 101, 97, 114, 101, 114, 32>>

\* The user id a credential string carries.
UserIdOf(t) == Get(Parsed(t).payload, <<117, 115, 101, 114, 95, 105, 100>>).v

\* The device-metadata headers every request carries.
FixedHeaderNames ==
  {"user-agent", "bereal-app-language", "bereal-os-version", "bereal-app-version",
   "bereal-timezone", "bereal-platform", "bereal-app-version-code",
   "bereal-device-language", "accept-language", "bereal-device-id"}

\* The headers two requests have apart from the signature are the same.
SameButSignature(a, b) ==
  /\ DOMAIN a.headers \ {"bereal-signature"} = DOMAIN b.headers \ {"bereal-signature"}
  /\ \A h \in DOMAIN a.headers \ {"bereal-signature"} : a.headers[h] = b.headers[h]

\* C11: parseAccessToken, isAccessTokenExpired, the constructor and the
\* setter, given a string that is no token (too few segments, or a segment
\* that is no base64 or no JSON), fail with MalformedTokenError and with no
\* other error kind.
MalformedRejection ==
  (/\ ret.op \in {"parseAccessToken", "utils.isAccessTokenExpired",
                  "new BeReal", "set accessToken"}
   /\ ret.token \in MalformedTokens \cup MalformedSegmentTokens)
    => ret.outcome = "MalformedTokenError"

\* C12: the request an endpoint method of a session constructed without
\* extra headers builds carries authorization = "Bearer " + the credential
\* held at the call and bereal-user-id = the user id of that credential,
\* with every device-metadata header present and non-empty, and it is handed
\* to fetch with these headers; so a call started after a replacement has
\* returned carries the new credential.
HeadersFollowHeldCredential ==
  [][(obj.class = "BeReal" /\ extras = NoHeaders)
       => /\ (ret'.op \in EndpointOps /\ ret'.outcome = "awaiting")
               => /\ pending' # <<>>
                  /\ pending'[Len(pending')].headers["authorization"]
                       = Bearer \o obj._accessToken
                  /\ pending'[Len(pending')].headers["bereal-user-id"]
                       = UserIdOf(obj._accessToken)
                  /\ \A h \in FixedHeaderNames :
                       /\ h \in DOMAIN pending'[Len(pending')].headers
                       /\ pending'[Len(pending')].headers[h] # <<>>
          /\ (wire' # <<>>) => SameButSignature(wire'[1], Head(pending))]_vars

NewCredentialOnRequestAfterReplacement ==
  /\ obj.class = "BeReal"
  /\ extras = NoHeaders
  /\ recovered
  /\ ret.op \in EndpointOps
  /\ ret.outcome = "awaiting"
  /\ pending # <<>>
  /\ pending[1].headers["authorization"] = Bearer \o obj._accessToken
  /\ UserIdOf(obj._accessToken) = <<117, 50>>

\* C13: on every request handed to fetch, each header the caller passed as an
\* extra header has the value the caller gave it.
ExtraHeadersTakePrecedence ==
  \A i \in 1..Len(wire) :
    \A h \in DOMAIN extras : wire[i].headers[h] = extras[h]

\* C14: isAccessTokenExpired() goes from true to false only by a step of the
\* setter that returns, with a credential that is not expired; after such a
\* step it is false, and the endpoint methods of the recovered session build
\* their requests with the credential held.
RecoveredOnlyByReplacement ==
  [][obj.class = "BeReal"
       => /\ (BeRealIsAccessTokenExpired(obj, now) /\ ~BeRealIsAccessTokenExpired(obj', now'))
               => /\ ret'.op = "set accessToken"
                  /\ ret'.outcome = "returned"
                  /\ ~(HeldExpiry(obj') < now')
          /\ (ret'.op = "set accessToken" /\ ret'.outcome = "returned")
               => ~BeRealIsAccessTokenExpired(obj', now')
          /\ (recovered /\ ret'.op \in EndpointOps /\ ~BeRealIsAccessTokenExpired(obj, now))
               => /\ ret'.outcome = "awaiting"
                  /\ pending'[Len(pending')].headers["authorization"]
                       = Bearer \o obj._accessToken]_vars

RecoveredSessionSendsRequest ==
  /\ recovered
  /\ wire # <<>>
  /\ wire[1].headers["authorization"] = Bearer \o obj._accessToken
  /\ ~BeRealIsAccessTokenExpired(obj, now)

\* C15: a step of the setter leaves the device id, the prefix URL, the
\* beforeRequest hooks and every header of the client other than
\* authorization and bereal-user-id as they were, the caller's other extra
\* headers included.
ReplacementFrame ==
  [][ret'.op = "set accessToken"
       => /\ obj'.deviceId = obj.deviceId
          /\ obj'.client.prefixUrl = obj.client.prefixUrl
          /\ obj'.client.beforeRequest = obj.client.beforeRequest
          /\ DOMAIN obj'.client.headers = DOMAIN obj.client.headers
          /\ \A h \in DOMAIN obj.client.headers \ {"authorization", "bereal-user-id"} :
               obj'.client.headers[h] = obj.client.headers[h]
          /\ \A h \in DOMAIN extras \ {"authorization", "bereal-user-id"} :
               obj'.client.headers[h] = extras[h]]_vars

ReplacedWithExtraHeaderKept ==
  /\ ret.op = "set accessToken"
  /\ ret.outcome = "returned"
  /\ obj._accessToken = ret.token
  /\ "bereal-signature" \in DOMAIN extras
  /\ obj.client.headers["bereal-signature"] = extras["bereal-signature"]

\* C16: no request handed to fetch is a repetition of one sent before for the
\* same call: a method issues at most one outbound call.
AtMostOneOutboundCall ==
  \A i \in 1..Len(wire) : wire[i].retryCount = 0

\* C17: a step of the phone sign-in is started only after the step before it
\* has succeeded: request-code after data-exchange, check-code after
\* request-code.
SignInStepsInOrder ==
  (ret.outcome = "awaiting")
    => /\ ret.op = "requestCode" => "data-exchange" \in succeeded
       /\ ret.op = "checkCode" => "request-code" \in succeeded

\* C18: a step of the setter given a string parseAccessToken cannot decode
\* throws and leaves every field of the session, the client's headers and the
\* requests under way as they were.
MalformedReplacementWritesNothing ==
  [][(ret'.op = "set accessToken" /\ ret'.token \in MalformedTokens)
       => /\ ret'.outcome \in {"DecodeError", "SyntaxError"}
          /\ obj' = obj
          /\ pending' = pending
          /\ inflight' = inflight]_vars

MalformedReplacementWhileRequestPending ==
  /\ ret.op = "set accessToken"
  /\ ret.token \in MalformedTokens
  /\ ret.outcome \in {"DecodeError", "SyntaxError"}
  /\ pending # <<>>
  /\ pending[1].headers["authorization"] = Bearer \o obj._accessToken

\* createBeRealSignature over a device id and a timezone.
SignatureOver(deviceId, timezone, timestamp) ==
  encodeBase64(<<49, 58>> \o NumberToString(timestamp) \o <<58>>
    \o HmacSha256(BEREAL_HMAC_KEY,
         encodeBase64(deviceId \o timezone \o NumberToString(timestamp))))

\* The signature of a request is one over the device id and the timezone its
\* own headers carry.
SignedOverOwnHeaders(request) ==
  \E ts \in 0..MaxSec :
    request.headers["bereal-signature"]
      = SignatureOver(request.headers["bereal-device-id"],
                      request.headers["bereal-timezone"], ts)

\* C19 as stated: for every choice of extra headers, the signature of every
\* request handed to fetch is computed over the device id and the timezone of
\* its bereal-device-id and bereal-timezone headers.
SignatureMatchesHeaders ==
  \A i \in 1..Len(wire) : SignedOverOwnHeaders(wire[i])

\* C19, amended: the same, for every choice of extra headers that sets neither
\* bereal-device-id nor bereal-timezone.
SignatureMatchesHeadersNotOverridden ==
  ("bereal-device-id" \notin DOMAIN extras /\ "bereal-timezone" \notin DOMAIN extras)
    => \A i \in 1..Len(wire) : SignedOverOwnHeaders(wire[i])

SentWithOtherExtraHeaders ==
  /\ wire # <<>>
  /\ extras # NoHeaders
  /\ "bereal-device-id" \notin DOMAIN extras
  /\ now >= 1000

\* The authorization and bereal-user-id headers of a request are those of one
\* credential.
OneCredential(request) ==
  \A t \in WellFormedTokens :
    request.headers["authorization"] = Bearer \o t
      => request.headers["bereal-user-id"] = UserIdOf(t)

\* C20: whatever the order of endpoint calls and replacements, the
\* authorization and bereal-user-id headers of every request of a session
\* come from one credential, a step of the setter changes no request already
\* built, and a request is handed to fetch with the headers it was built with:
\* those of the credential held when its call started.
NoMixedCredentials ==
  [][obj.class = "BeReal"
       => /\ \A r \in {pending'[i] : i \in 1..Len(pending')} : OneCredential(r)
          /\ \A i \in 1..Len(wire') : OneCredential(wire'[i])
          /\ (/\ ret'.op \in EndpointOps
              /\ ret'.outcome = "awaiting"
              /\ "authorization" \notin DOMAIN extras)
               => pending'[Len(pending')].headers["authorization"]
                    = Bearer \o obj._accessToken
          /\ ret'.op = "set accessToken" => (pending' = pending /\ inflight' = inflight)
          /\ (wire' # <<>>) => SameButSignature(wire'[1], Head(pending))]_vars

SentWithCredentialOfCallStart ==
  /\ obj.class = "BeReal"
  /\ wire # <<>>
  /\ replaced
  /\ \E t \in WellFormedTokens :
       /\ t # obj._accessToken
       /\ wire[1].headers["authorization"] = Bearer \o t
       /\ wire[1].headers["bereal-user-id"] = UserIdOf(t)

====
